---- MODULE Spec2Model ----
(***************************************************************************)
(* A model of gh_stats.py: the command `main` resolves an auth header and  *)
(* a repository source, calls get_repo_data once per (owner, repo) pair    *)
(* and renders the records as a console table, a CSV file or a JSON file.  *)
(*                                                                         *)
(* Text is a sequence of tokens: the characters that the code inspects     *)
(* (" ", "\t", "/", ".", ",") are tokens of their own, any other run of    *)
(* characters ("acme", "csv") is one token.  Names hold no quote,          *)
(* backslash or line break.                                                *)
(***************************************************************************)
EXTENDS Integers, Sequences, FiniteSets, TLC

VARIABLES
    repos, org, user, output_file, auth_token,  \* the command line options
    GH_TOKEN,                                   \* os.getenv('GH_TOKEN')
    HEADERS, repos_dict, final_data,            \* locals of main
    oi, ri,                                     \* position of the two for loops
    frame, resp_data, views, clones, ret,       \* locals of get_repo_data
    requests,                                   \* requests.get calls, in order
    calls,                                      \* get_repo_data calls, in order
    files,                                      \* files opened for writing
    stdout,                                     \* lines printed with print()
    console,                                    \* tables printed with rich
    pc, err

inputs == <<repos, org, user, output_file, auth_token, GH_TOKEN>>
locals == <<HEADERS, repos_dict, final_data, oi, ri>>
fetch  == <<frame, resp_data, views, clones, ret>>
world  == <<requests, calls, files, stdout, console>>
vars   == <<inputs, locals, fetch, world, pc, err>>

----------------------------------------------------------------------------
(* Bounds *)

MaxList == 2    \* longest listing the service returns
MaxVal  == 1    \* largest counter value the service returns in FetchSpec

----------------------------------------------------------------------------
(* Python values *)

None       == [isNone |-> TRUE,  v |-> <<>>]
Some(s)    == [isNone |-> FALSE, v |-> s]
Truthy(x)  == ~x.isNone /\ x.v # <<>>

Unbound    == [bound |-> FALSE, v |-> <<>>]
Bound(x)   == [bound |-> TRUE,  v |-> x]

Unset      == [unset |-> 0]
ErrorBody  == [message |-> 404]

SeqUpTo(S, n) == UNION {[1..k -> S] : k \in 0..n}

Whitespace == {" ", "\t"}

RECURSIVE LStrip(_, _)
LStrip(s, chars) ==
    IF s # <<>> /\ Head(s) \in chars THEN LStrip(Tail(s), chars) ELSE s

RECURSIVE RStrip(_, _)
RStrip(s, chars) ==
    IF s # <<>> /\ s[Len(s)] \in chars
    THEN RStrip(SubSeq(s, 1, Len(s) - 1), chars)
    ELSE s

\* str.strip(chars): removes the characters of chars from both ends
Strip(s, chars) == RStrip(LStrip(s, chars), chars)

\* org.strip().strip('/')
StripOwner(s) == Strip(Strip(s, Whitespace), {"/"})

Digit == <<"0", "1", "2", "3", "4", "5", "6", "7", "8", "9">>

\* str(n) of a non-negative int
RECURSIVE Decimal(_)
Decimal(n) ==
    IF n < 10 THEN <<Digit[n + 1]>>
    ELSE Decimal(n \div 10) \o <<Digit[(n % 10) + 1]>>

\* str(os.getenv(...)) inside the f-string
StrOf(x) == IF x.isNone THEN <<"None">> ELSE x.v

----------------------------------------------------------------------------
(* Pure parts of main and get_repo_data *)

\* lines 55-59: the Authorization header value
TokenHeaderEnvFirst(tok, env) ==
    IF ~env.isNone THEN <<"token ">> \o env.v ELSE <<"token ">> \o StrOf(tok)

TokenHeader(tok, env) ==
    IF Truthy(tok) THEN <<"token ">> \o tok.v ELSE <<"token ">> \o StrOf(env)

Api == <<"https://api.github.com">>

DetailUrl(owner, repo) == Api \o <<"/repos/">> \o owner \o <<"/">> \o repo

ViewsUrlAsClones(owner, repo) ==
    Api \o <<"/repos/">> \o owner \o <<"/">> \o repo \o <<"/traffic/clones">>

ViewsUrl(owner, repo) ==
    Api \o <<"/repos/">> \o owner \o <<"/">> \o repo \o <<"/traffic/views">>

ClonesUrl(owner, repo) ==
    Api \o <<"/repos/">> \o owner \o <<"/">> \o repo \o <<"/traffic/clones">>

OrgListUrl(owner)  == Api \o <<"/orgs/">> \o owner \o <<"/repos">>
UserListUrl(owner) == Api \o <<"/users/">> \o owner \o <<"/repos">>

Has(body, k) == k \in DOMAIN body

\* the keys that lines 29-35 look up
KeysPresent(d, v, c) ==
    /\ Has(d, "forks_count") /\ Has(d, "stargazers_count")
    /\ Has(d, "watchers_count")
    /\ Has(c, "count") /\ Has(c, "uniques")
    /\ Has(v, "count") /\ Has(v, "uniques")

Columns == <<"Repo", "Forks", "Stars", "Watchers", "Clones Total",
             "Clones Unique", "Views Total", "Views Unique">>

Rec(r, f, s, w, ct, cu, vt, vu) ==
    [k \in {Columns[i] : i \in 1..Len(Columns)} |->
        CASE k = "Repo"          -> r
          [] k = "Forks"         -> f
          [] k = "Stars"         -> s
          [] k = "Watchers"      -> w
          [] k = "Clones Total"  -> ct
          [] k = "Clones Unique" -> cu
          [] k = "Views Total"   -> vt
          [] k = "Views Unique"  -> vu]

RecordOfSwapped(owner, repo, d, v, c) ==
    Rec(owner \o <<"/">> \o repo, d.forks_count, d.stargazers_count,
        d.watchers_count, v.count, v.uniques, c.count, c.uniques)

\* lines 27-36: the returned dict
RecordOf(owner, repo, d, v, c) ==
    Rec(owner \o <<"/">> \o repo, d.forks_count, d.stargazers_count,
        d.watchers_count, c.count, c.uniques, v.count, v.uniques)

\* final_data.append(...)
AppendedFirst(list, rec) == <<rec>> \o list

Appended(list, rec) == Append(list, rec)

\* PurePath.name: the last component of the path
RECURSIVE PathName(_)
PathName(p) ==
    LET q == RStrip(p, {"/"})
    IN  IF \E i \in 1..Len(q) : q[i] = "/"
        THEN PathName(Tail(q))
        ELSE q

LastDot(name) ==
    IF \E i \in 1..Len(name) : name[i] = "."
    THEN CHOOSE i \in 1..Len(name) :
            /\ name[i] = "."
            /\ \A j \in (i + 1)..Len(name) : name[j] # "."
    ELSE 0

\* PurePath.suffix: from the last dot of the name, unless the dot is the
\* first or the last character of the name
Suffix(p) ==
    LET name == PathName(p)
        i    == LastDot(name)
    IN  IF 1 < i /\ i < Len(name) THEN SubSeq(name, i, Len(name)) ELSE <<>>

\* lines 88-134: which branch of the output dispatch runs
OutputKindLenient(out) ==
    IF ~Truthy(out) THEN "table"
    ELSE IF Suffix(out.v) = <<".", "csv">> THEN "csv"
    ELSE "json"

OutputKindSwapped(out) ==
    IF ~Truthy(out) THEN "table"
    ELSE IF Suffix(out.v) = <<".", "json">> THEN "csv"
    ELSE IF Suffix(out.v) = <<".", "csv">> THEN "json"
    ELSE "invalid"

OutputKind(out) ==
    IF ~Truthy(out) THEN "table"
    ELSE IF Suffix(out.v) = <<".", "csv">> THEN "csv"
    ELSE IF Suffix(out.v) = <<".", "json">> THEN "json"
    ELSE "invalid"

\* csv.writer, QUOTE_MINIMAL: a field holding the delimiter is quoted
CsvField(s) ==
    IF \E i \in 1..Len(s) : s[i] = "," THEN <<"\"">> \o s \o <<"\"">> ELSE s

RECURSIVE Join(_, _)
Join(cells, sep) ==
    IF cells = <<>> THEN <<>>
    ELSE IF Len(cells) = 1 THEN cells[1]
    ELSE cells[1] \o sep \o Join(Tail(cells), sep)

\* the cells of one record: the name, then str() of the seven counters
Cells(data) ==
    [i \in 1..Len(Columns) |->
        IF i = 1 THEN data[Columns[1]] ELSE Decimal(data[Columns[i]])]

\* lines 93-121: the lines of the CSV file
CsvLines(list) ==
    <<Join([i \in 1..Len(Columns) |-> <<Columns[i]>>], <<",">>)>> \o
    [n \in 1..Len(list) |->
        Join([i \in 1..Len(Columns) |-> CsvField(Cells(list[n])[i])], <<",">>)]

JsonMember(data, i) ==
    <<"            ", "\"", Columns[i], "\"", ": ">> \o
    (IF i = 1 THEN <<"\"">> \o data[Columns[1]] \o <<"\"">>
     ELSE Decimal(data[Columns[i]])) \o
    (IF i < Len(Columns) THEN <<",">> ELSE <<>>)

JsonObject(data, last) ==
    << <<"        ", "{">> >> \o
    [i \in 1..Len(Columns) |-> JsonMember(data, i)] \o
    << <<"        ", "}">> \o (IF last THEN <<>> ELSE <<",">>) >>

RECURSIVE JsonObjects(_)
JsonObjects(list) ==
    IF list = <<>> THEN <<>>
    ELSE JsonObject(Head(list), Len(list) = 1) \o JsonObjects(Tail(list))

\* lines 128-129: json.dumps({"Data": [...]}, indent=4), line by line
JsonLines(list) ==
    IF list = <<>>
    THEN << <<"{">>, <<"    ", "\"", "Data", "\"", ": ", "[]">>, <<"}">> >>
    ELSE << <<"{">>, <<"    ", "\"", "Data", "\"", ": ", "[">> >> \o
         JsonObjects(list) \o
         << <<"    ", "]">>, <<"}">> >>

\* lines 135-155: the rich table
TableOf(list) ==
    [title   |-> "GitHub Stats",
     columns |-> Columns,
     rows    |-> [n \in 1..Len(list) |-> Cells(list[n])]]

----------------------------------------------------------------------------
(* The inputs of a run and the answers of the service *)

RepoNames == {<<"widgets">>, <<"gadgets">>}

\* what yaml.safe_load returns for the file named by --repos
SafeLoad(path) ==
    IF path = <<"one", ".", "yml">>
    THEN << [owner |-> <<"acme">>,
             repos |-> << <<"widgets">>, <<"gadgets">> >>],
            [owner |-> <<"beta">>, repos |-> << <<"widgets">> >>] >>
    ELSE << [owner |-> <<"acme">>, repos |-> <<>>],
            [owner |-> <<"a", ",", "b">>, repos |-> << <<"gadgets">> >>] >>

ReposArgs  == {None, Some(<<"one", ".", "yml">>), Some(<<"two", ".", "yml">>)}
OrgArgs    == {None, Some(<<"acme">>), Some(<<" ", "/", "acme", "/", "\t">>),
               Some(<<"/", " ", "acme">>)}
UserArgs   == {None, Some(<<>>), Some(<<"beta", "/">>)}
OutputArgs == {None, Some(<<>>), Some(<<"out", ".", "csv">>),
               Some(<<"d", "/", "out", ".", "json">>),
               Some(<<"out", ".", "txt">>), Some(<<".", "csv">>)}
TokenArgs  == {None, Some(<<>>), Some(<<"tokA">>)}
EnvTokens  == {None, Some(<<"tokE">>)}

\* GET /orgs/{owner}/repos: an array of objects with a name, or an error object
Listings ==
    {[array |-> TRUE, items |-> l] : l \in SeqUpTo(RepoNames, MaxList)}
    \cup {[array |-> FALSE, items |-> <<>>]}

DetailBodies ==
    {[forks_count |-> 3, stargazers_count |-> 10, watchers_count |-> 11],
     ErrorBody}
ViewsBodies  == {[count |-> 50, uniques |-> 20], [count |-> 50]}
ClonesBodies == {[count |-> 5, uniques |-> 4], ErrorBody}

Vals == 0..MaxVal
AnyDetail ==
    [forks_count : Vals, stargazers_count : Vals, watchers_count : Vals]
    \cup {ErrorBody}
AnyTraffic == [count : Vals, uniques : Vals] \cup {ErrorBody}

----------------------------------------------------------------------------
(* The run of main *)

Init ==
    /\ repos \in ReposArgs /\ org \in OrgArgs /\ user \in UserArgs
    /\ output_file \in OutputArgs
    /\ auth_token \in TokenArgs /\ GH_TOKEN \in EnvTokens
    /\ HEADERS = Unbound /\ repos_dict = Unbound /\ final_data = <<>>
    /\ oi = 0 /\ ri = 0
    /\ frame = Unset /\ resp_data = Unset /\ views = Unset /\ clones = Unset
    /\ ret = Unset
    /\ requests = <<>> /\ calls = <<>> /\ files = <<>>
    /\ stdout = <<>> /\ console = <<>>
    /\ pc = "token" /\ err = "none"

Request(url) == [url |-> url, headers |-> HEADERS.v]

\* lines 55-61
ResolveToken ==
    /\ pc = "token"
    /\ HEADERS' = Bound(TokenHeader(auth_token, GH_TOKEN))
    /\ pc' = "source"
    /\ UNCHANGED <<inputs, repos_dict, final_data, oi, ri, fetch, world, err>>

\* lines 64-65
ResolveFromFile ==
    /\ pc = "source"
    /\ Truthy(repos)
    /\ repos_dict' = Bound(SafeLoad(repos.v))
    /\ pc' = "loop"
    /\ UNCHANGED <<inputs, HEADERS, final_data, oi, ri, fetch, world, err>>

\* lines 67-70 and 72-75: one listing request, then the names it returned
ListRepos(arg, url) ==
    \E resp \in Listings :
        /\ requests' = Append(requests, Request(url))
        /\ IF resp.array
           THEN /\ repos_dict' =
                      Bound(<< [owner |-> StripOwner(arg), repos |-> resp.items] >>)
                /\ pc' = "loop"
                /\ err' = err
           ELSE /\ repos_dict' = repos_dict
                /\ pc' = "error"
                /\ err' = "TypeError"
        /\ UNCHANGED <<inputs, HEADERS, final_data, oi, ri, fetch,
                       calls, files, stdout, console>>

\* lines 66-70
ResolveFromOrg ==
    /\ pc = "source"
    /\ ~Truthy(repos) /\ Truthy(org)
    /\ ListRepos(org.v, OrgListUrl(StripOwner(org.v)))

\* lines 71-75
ResolveFromUser ==
    /\ pc = "source"
    /\ ~Truthy(repos) /\ ~Truthy(org) /\ Truthy(user)
    /\ ListRepos(user.v, UserListUrl(StripOwner(user.v)))

ResolveNothingAsEmpty ==
    /\ pc = "source"
    /\ ~Truthy(repos) /\ ~Truthy(org) /\ ~Truthy(user)
    /\ repos_dict' = Bound(<<>>)
    /\ pc' = "loop"
    /\ UNCHANGED <<inputs, HEADERS, final_data, oi, ri, fetch, world, err>>

\* lines 64-75 when no branch is taken: repos_dict stays unbound
ResolveNothing ==
    /\ pc = "source"
    /\ ~Truthy(repos) /\ ~Truthy(org) /\ ~Truthy(user)
    /\ pc' = "loop"
    /\ UNCHANGED <<inputs, locals, fetch, world, err>>

\* lines 80-81: final_data = [] and the evaluation of repos_dict["Owners"]
BeginLoop ==
    /\ pc = "loop"
    /\ final_data' = <<>>
    /\ IF repos_dict.bound
       THEN oi' = 1 /\ ri' = 1 /\ pc' = "next" /\ err' = err
       ELSE oi' = oi /\ ri' = ri /\ pc' = "error" /\ err' = "UnboundLocalError"
    /\ UNCHANGED <<inputs, HEADERS, repos_dict, fetch, world>>

\* lines 81-84: the next step of the two nested for loops
NextRepo ==
    /\ pc = "next"
    /\ LET owners == repos_dict.v IN
       IF oi > Len(owners)
       THEN /\ pc' = "render"
            /\ UNCHANGED <<oi, ri, frame, calls>>
       ELSE IF ri > Len(owners[oi].repos)
       THEN /\ oi' = oi + 1 /\ ri' = 1
            /\ pc' = "next"
            /\ UNCHANGED <<frame, calls>>
       ELSE /\ frame' = [headers |-> HEADERS.v, owner |-> owners[oi].owner,
                         repo |-> owners[oi].repos[ri]]
            /\ calls' = Append(calls, [owner |-> owners[oi].owner,
                                       repo |-> owners[oi].repos[ri]])
            /\ pc' = "detail"
            /\ UNCHANGED <<oi, ri>>
    /\ UNCHANGED <<inputs, HEADERS, repos_dict, final_data, resp_data, views,
                   clones, ret, requests, files, stdout, console, err>>

\* lines 15-17
ReqDetail(Bodies) ==
    /\ pc = "detail"
    /\ \E body \in Bodies : resp_data' = body
    /\ requests' = Append(requests, [url |-> DetailUrl(frame.owner, frame.repo),
                                     headers |-> frame.headers])
    /\ pc' = "views"
    /\ UNCHANGED <<inputs, locals, frame, views, clones, ret,
                   calls, files, stdout, console, err>>

\* lines 19-21
ReqViews(Bodies) ==
    /\ pc = "views"
    /\ \E body \in Bodies : views' = body
    /\ requests' = Append(requests, [url |-> ViewsUrl(frame.owner, frame.repo),
                                     headers |-> frame.headers])
    /\ pc' = "clones"
    /\ UNCHANGED <<inputs, locals, frame, resp_data, clones, ret,
                   calls, files, stdout, console, err>>

\* lines 23-25
ReqClones(Bodies) ==
    /\ pc = "clones"
    /\ \E body \in Bodies : clones' = body
    /\ requests' = Append(requests, [url |-> ClonesUrl(frame.owner, frame.repo),
                                     headers |-> frame.headers])
    /\ pc' = "build"
    /\ UNCHANGED <<inputs, locals, frame, resp_data, views, ret,
                   calls, files, stdout, console, err>>

ReturnRecordOrSkip ==
    /\ pc = "build"
    /\ IF KeysPresent(resp_data, views, clones)
       THEN /\ ret' = RecordOf(frame.owner, frame.repo, resp_data, views, clones)
            /\ pc' = "returned"
            /\ UNCHANGED <<ri, frame, resp_data, views, clones>>
       ELSE /\ ri' = ri + 1
            /\ pc' = "next"
            /\ frame' = Unset /\ resp_data' = Unset /\ views' = Unset
            /\ clones' = Unset /\ ret' = Unset
    /\ UNCHANGED <<inputs, HEADERS, repos_dict, final_data, oi, world, err>>

\* lines 27-36: the dict is built, or a missing key raises KeyError, which
\* nothing catches
ReturnRecord ==
    /\ pc = "build"
    /\ IF KeysPresent(resp_data, views, clones)
       THEN /\ ret' = RecordOf(frame.owner, frame.repo, resp_data, views, clones)
            /\ pc' = "returned"
            /\ err' = err
       ELSE /\ ret' = ret
            /\ pc' = "error"
            /\ err' = "KeyError"
    /\ UNCHANGED <<inputs, locals, frame, resp_data, views, clones, world>>

\* line 84: final_data.append(...), and the loop moves on
AppendRecord ==
    /\ pc = "returned"
    /\ final_data' = Appended(final_data, ret)
    /\ ri' = ri + 1
    /\ frame' = Unset /\ resp_data' = Unset /\ views' = Unset
    /\ clones' = Unset /\ ret' = Unset
    /\ pc' = "next"
    /\ UNCHANGED <<inputs, HEADERS, repos_dict, oi, world, err>>

CsvPath == <<"data", ".", "csv">>

\* lines 91-123
RenderCsv ==
    /\ pc = "render"
    /\ OutputKind(output_file) = "csv"
    /\ stdout' = stdout \o <<"Creating CSV", "CSV file created.">>
    /\ files' = Append(files, [path |-> CsvPath, lines |-> CsvLines(final_data)])
    /\ pc' = "done"
    /\ UNCHANGED <<inputs, locals, fetch, requests, calls, console, err>>

\* lines 125-129
RenderJson ==
    /\ pc = "render"
    /\ OutputKind(output_file) = "json"
    /\ stdout' = Append(stdout, "Creating JSON")
    /\ files' = Append(files, [path  |-> output_file.v,
                               lines |-> JsonLines(final_data)])
    /\ pc' = "done"
    /\ UNCHANGED <<inputs, locals, fetch, requests, calls, console, err>>

\* lines 131-132
RenderInvalid ==
    /\ pc = "render"
    /\ OutputKind(output_file) = "invalid"
    /\ pc' = "error"
    /\ err' = "ValueError"
    /\ UNCHANGED <<inputs, locals, fetch, world>>

\* lines 134-158
RenderTable ==
    /\ pc = "render"
    /\ OutputKind(output_file) = "table"
    /\ console' = Append(console, TableOf(final_data))
    /\ pc' = "done"
    /\ UNCHANGED <<inputs, locals, fetch, requests, calls, files, stdout, err>>

Next ==
    \/ ResolveToken
    \/ ResolveFromFile
    \/ ResolveFromOrg
    \/ ResolveFromUser
    \/ ResolveNothing
    \/ BeginLoop
    \/ NextRepo
    \/ ReqDetail(DetailBodies)
    \/ ReqViews(ViewsBodies)
    \/ ReqClones(ClonesBodies)
    \/ ReturnRecord
    \/ AppendRecord
    \/ RenderCsv
    \/ RenderJson
    \/ RenderInvalid
    \/ RenderTable

Spec == Init /\ [][Next]_vars

----------------------------------------------------------------------------
(* get_repo_data on its own: one call, any well-formed or error answer *)

FetchHeaders == {<<"token ", "tokA">>, <<"token ", "None">>}
FetchOwners  == {<<"acme">>, <<"the", "-", "org">>}

FetchInit ==
    /\ repos = None /\ org = None /\ user = None
    /\ output_file = None /\ auth_token = None /\ GH_TOKEN = None
    /\ HEADERS = Unbound /\ repos_dict = Unbound /\ final_data = <<>>
    /\ oi = 0 /\ ri = 0
    /\ \E h \in FetchHeaders, o \in FetchOwners, r \in RepoNames :
          /\ frame = [headers |-> h, owner |-> o, repo |-> r]
          /\ calls = << [owner |-> o, repo |-> r] >>
    /\ resp_data = Unset /\ views = Unset /\ clones = Unset /\ ret = Unset
    /\ requests = <<>> /\ files = <<>>
    /\ stdout = <<>> /\ console = <<>>
    /\ pc = "detail" /\ err = "none"

FetchNext ==
    \/ ReqDetail(AnyDetail)
    \/ ReqViews(AnyTraffic)
    \/ ReqClones(AnyTraffic)
    \/ ReturnRecord

FetchSpec == FetchInit /\ [][FetchNext]_vars

----------------------------------------------------------------------------
(* Properties *)

\* the (owner, repo) pairs of a RepoSource, in the order they appear
RECURSIVE PairsOf(_)
PairsOf(owners) ==
    IF owners = <<>> THEN <<>>
    ELSE [i \in 1..Len(Head(owners).repos) |->
             [owner |-> Head(owners).owner, repo |-> Head(owners).repos[i]]]
         \o PairsOf(Tail(owners))

IsPrefix(a, b) == Len(a) <= Len(b) /\ SubSeq(b, 1, Len(a)) = a

\* the fetch loop has ended without a failure
FetchesSucceeded ==
    pc \in {"render", "done"} \/ (pc = "error" /\ err = "ValueError")

PathGiven    == ~output_file.isNone
IsCsvPath    == Truthy(output_file) /\ Suffix(output_file.v) = <<".", "csv">>
IsJsonPath   == Truthy(output_file) /\ Suffix(output_file.v) = <<".", "json">>
OtherSuffix  == Suffix(output_file.v) \notin {<<".", "csv">>, <<".", "json">>}
CsvHeader    ==
    <<"Repo", ",", "Forks", ",", "Stars", ",", "Watchers", ",", "Clones Total",
      ",", "Clones Unique", ",", "Views Total", ",", "Views Unique">>

\* C1: get_repo_data is called once per pair of the resolved RepoSource, in
\* the order of the pairs; the records follow the same order, and when every
\* fetch has succeeded there are exactly N calls and N records, the i-th
\* record being the one of the i-th pair.
C1_OncePerPairInOrder ==
    repos_dict.bound =>
        LET P == PairsOf(repos_dict.v) IN
        /\ IsPrefix(calls, P)
        /\ Len(final_data) <= Len(calls)
        /\ \A i \in 1..Len(final_data) :
              final_data[i]["Repo"] = P[i].owner \o <<"/">> \o P[i].repo
        /\ FetchesSucceeded => calls = P /\ Len(final_data) = Len(P)

C1_Witness ==
    /\ pc = "done"
    /\ repos_dict.bound /\ Len(repos_dict.v) = 2
    /\ Len(calls) = 3 /\ Len(final_data) = 3

\* C2: from well-formed detail, views and clones answers get_repo_data
\* returns the record with Repo = owner/repo, Forks, Stars and Watchers of
\* the detail answer, Clones Total/Unique of the clones answer and Views
\* Total/Unique of the views answer; it fails only when an answer lacks a key.
C2_RecordMergesAnswers ==
    /\ pc = "returned" =>
          /\ DOMAIN ret = {"Repo", "Forks", "Stars", "Watchers", "Clones Total",
                           "Clones Unique", "Views Total", "Views Unique"}
          /\ ret["Repo"] = frame.owner \o <<"/">> \o frame.repo
          /\ ret["Forks"] = resp_data.forks_count
          /\ ret["Stars"] = resp_data.stargazers_count
          /\ ret["Watchers"] = resp_data.watchers_count
          /\ ret["Clones Total"] = clones.count
          /\ ret["Clones Unique"] = clones.uniques
          /\ ret["Views Total"] = views.count
          /\ ret["Views Unique"] = views.uniques
    /\ pc = "error" =>
          resp_data = ErrorBody \/ views = ErrorBody \/ clones = ErrorBody

C2_Witness ==
    /\ pc = "returned"
    /\ views.count # clones.count /\ views.uniques # clones.uniques
    /\ views.count # views.uniques
    /\ resp_data.forks_count # resp_data.stargazers_count
    /\ ret["Clones Total"] = clones.count

\* C3 (as claimed): with a path whose extension is .csv, a successful run
\* writes exactly one file, at the path given by --output-file, holding the
\* header line and one line per record.
C3_CsvAtOutputPath ==
    (pc = "done" /\ IsCsvPath) =>
        /\ Len(files) = 1
        /\ files[1].path = output_file.v
        /\ Len(files[1].lines) = Len(final_data) + 1
        /\ files[1].lines[1] = CsvHeader

\* C4 (as claimed): with any given path whose extension is neither .csv nor
\* .json the run ends with ValueError, and never writes a file or prints a
\* table.
C4_AnyOtherPathEndsInValueError ==
    (PathGiven /\ OtherSuffix) =>
        /\ files = <<>> /\ console = <<>>
        /\ pc \in {"done", "error"} => pc = "error" /\ err = "ValueError"

\* C4 (amended): with a non-empty path whose extension is neither .csv nor
\* .json no state of the run has a file written or a table printed, the run
\* never completes, and once the source is resolved and every repository is
\* fetched it ends with ValueError.
C4_OtherExtensionWritesNothing ==
    (Truthy(output_file) /\ OtherSuffix) =>
        /\ files = <<>> /\ console = <<>>
        /\ pc # "done"
        /\ (pc = "error" /\ repos_dict.bound
                /\ Len(final_data) = Len(PairsOf(repos_dict.v)))
              => err = "ValueError"

C4_Witness ==
    /\ pc = "error" /\ err = "ValueError"
    /\ output_file = Some(<<"out", ".", "txt">>)
    /\ Len(final_data) = 2

\* the current call has received an answer that lacks a key it looks up
BadAnswer ==
    \/ resp_data # Unset /\ ~({"forks_count", "stargazers_count",
                               "watchers_count"} \subseteq DOMAIN resp_data)
    \/ views # Unset /\ ~({"count", "uniques"} \subseteq DOMAIN views)
    \/ clones # Unset /\ ~({"count", "uniques"} \subseteq DOMAIN clones)

NoOutput == files = <<>> /\ console = <<>> /\ stdout = <<>>

\* C5: when an answer for a repository lacks an expected key, the call ends
\* in KeyError; a run that has failed takes no further step (no later
\* repository is fetched), and it has produced no output, although the
\* repositories before the failing one were fetched.
C5_MissingKeyAbortsRun ==
    /\ [][(pc = "build" /\ BadAnswer) =>
             (pc' = "error" /\ err' = "KeyError" /\ world' = world)]_vars
    /\ [][pc # "error"]_vars
    /\ [](err = "KeyError" =>
             /\ pc = "error" /\ BadAnswer /\ NoOutput
             /\ Len(calls) = Len(final_data) + 1)

C5_Witness ==
    /\ pc = "error" /\ err = "KeyError"
    /\ Len(final_data) = 1
    /\ repos_dict.bound /\ Len(PairsOf(repos_dict.v)) = 3

C6_Header ==
    IF ~auth_token.isNone /\ auth_token.v # <<>>
    THEN <<"token ">> \o auth_token.v
    ELSE IF ~GH_TOKEN.isNone THEN <<"token ">> \o GH_TOKEN.v
    ELSE <<"token ", "None">>

\* C6: the header is "token " followed by the non-empty --auth-token value,
\* else by the GH_TOKEN value, else by "None"; resolving it never fails, and
\* every request of the run carries that header.
C6_OneHeaderForAllRequests ==
    /\ pc # "token" => HEADERS = Bound(C6_Header)
    /\ \A i \in 1..Len(requests) : requests[i].headers = C6_Header

C6_Witness ==
    /\ auth_token = Some(<<"tokA">>) /\ GH_TOKEN = Some(<<"tokE">>)
    /\ ~Truthy(repos) /\ Truthy(org)
    /\ Len(requests) = 7
    /\ pc = "done"

ListingUsed == ~Truthy(repos) /\ (Truthy(org) \/ Truthy(user))
Edge        == Whitespace \cup {"/"}

\* C7 (as claimed): with --org or --user, the owner of the listing request
\* and of the records neither starts nor ends with whitespace or "/", and
\* the repositories fetched are the names the one listing request returned.
C7_OwnerFullyStripped ==
    (ListingUsed /\ repos_dict.bound) =>
        LET o == repos_dict.v[1].owner IN
        /\ o # <<>> => Head(o) \notin Edge /\ o[Len(o)] \notin Edge
        /\ Len(repos_dict.v) = 1
        /\ \A i \in 1..Len(calls) :
              calls[i] = [owner |-> o, repo |-> repos_dict.v[1].repos[i]]

\* C8: a run that completes renders exactly one output, a table when no
\* path is given, the CSV lines for a .csv path and the JSON document for a
\* .json path; whenever anything has been rendered, the run is complete:
\* the source is resolved, every pair has been fetched, and no request or
\* call follows.
C8_RenderOnceAfterAllFetches ==
    /\ ~NoOutput =>
          /\ pc = "done" /\ repos_dict.bound
          /\ calls = PairsOf(repos_dict.v)
          /\ Len(final_data) = Len(calls)
          /\ Len(requests) \in {3 * Len(calls), 3 * Len(calls) + 1}
    /\ pc = "done" =>
          /\ Len(files) + Len(console) = 1
          /\ output_file.isNone =>
                /\ Len(console) = 1
                /\ Len(console[1].rows) = Len(final_data)
          /\ IsCsvPath =>
                /\ Len(files) = 1
                /\ files[1].lines[1] = CsvHeader
                /\ Len(files[1].lines) = Len(final_data) + 1
          /\ IsJsonPath =>
                /\ Len(files) = 1
                /\ files[1].path = output_file.v
                /\ files[1].lines[1] = <<"{">>
                /\ files[1].lines[2][3] = "Data"

C8_Witness ==
    /\ pc = "done"
    /\ IsJsonPath
    /\ Len(files) = 1 /\ Len(final_data) = 3

\* C9: with none of --repos, --org, --user the source stays unresolved and
\* the run fails where the fetch loop starts: no request, no call of
\* get_repo_data and no output in any state.
C9_NoSelectorFailsBeforeAnyRequest ==
    (repos.isNone /\ org.isNone /\ user.isNone) =>
        /\ ~repos_dict.bound
        /\ requests = <<>> /\ calls = <<>> /\ NoOutput
        /\ pc \in {"token", "source", "loop", "error"}
        /\ pc = "error" => err = "UnboundLocalError"

C9_Witness ==
    /\ repos.isNone /\ org.isNone /\ user.isNone
    /\ pc = "error" /\ err = "UnboundLocalError"
    /\ HEADERS.bound

C10_Listing ==
    IF Truthy(repos) THEN <<>>
    ELSE IF Truthy(org)
    THEN << <<"https://api.github.com", "/orgs/">>
            \o repos_dict.v[1].owner \o <<"/repos">> >>
    ELSE IF Truthy(user)
    THEN << <<"https://api.github.com", "/users/">>
            \o repos_dict.v[1].owner \o <<"/repos">> >>
    ELSE <<>>

C10_Three(p) ==
    LET prefix == <<"https://api.github.com", "/repos/">>
                  \o p.owner \o <<"/">> \o p.repo
    IN  <<prefix, prefix \o <<"/traffic/views">>, prefix \o <<"/traffic/clones">> >>

RECURSIVE C10_Fetches(_)
C10_Fetches(pairs) ==
    IF pairs = <<>> THEN <<>>
    ELSE C10_Three(Head(pairs)) \o C10_Fetches(Tail(pairs))

\* C10: the requests made so far are always a prefix of: the one listing
\* request (with --org/--user only), then for each pair in order detail,
\* traffic/views, traffic/clones under /repos/{owner}/{repo}; a run whose
\* fetches all succeed has made exactly that trace, 3N requests plus the
\* listing request.
C10_RequestTrace ==
    /\ ~repos_dict.bound => Len(requests) <= 1
    /\ repos_dict.bound =>
          LET P    == PairsOf(repos_dict.v)
              E    == C10_Listing \o C10_Fetches(P)
              urls == [i \in 1..Len(requests) |-> requests[i].url]
          IN  /\ IsPrefix(urls, E)
              /\ Len(requests) >= Len(C10_Listing) + 3 * Len(final_data)
              /\ FetchesSucceeded =>
                    /\ urls = E
                    /\ Len(requests) = 3 * Len(P) + Len(C10_Listing)

C10_Witness ==
    /\ pc = "done"
    /\ ListingUsed
    /\ Len(requests) = 7

====
